---- MODULE Spec2Model ----
(***************************************************************************)
(* Model of the task progress registry of the memory-companion backend:    *)
(* backend/utils/progress_tracker.py (class ProgressTracker) and the       *)
(* controllers that call it.                                               *)
(***************************************************************************)
EXTENDS Integers, Sequences, FiniteSets, TLC

(***************************************************************************)
(* Python floats.  progress, estimated_time and the sweep age are IEEE-754 *)
(* binary64 values.  A value is sign * m * 2^e with m an integer written   *)
(* as its bits, most significant first, and kept odd (no leading and no    *)
(* trailing zero bit); zero is the empty mantissa.  Every operation        *)
(* computes the exact result and rounds it to 53 bits, to nearest, ties to *)
(* even.  The values of the registry stay far from the subnormal and the   *)
(* overflow range, which are not modelled.                                 *)
(***************************************************************************)
MantBits == 53

\* b without its leading zero bits
StripLead(b) ==
  IF \A i \in 1..Len(b) : b[i] = 0 THEN <<>>
  ELSE LET k == CHOOSE i \in 1..Len(b) :
                  b[i] = 1 /\ \A j \in 1..(i - 1) : b[j] = 0
       IN  SubSeq(b, k, Len(b))

RECURSIVE NatToBits(_)
NatToBits(n) ==
  IF n = 0 THEN <<>> ELSE Append(NatToBits(n \div 2), n % 2)

RECURSIVE BitsToNat(_)
BitsToNat(b) ==
  IF b = <<>> THEN 0
  ELSE 2 * BitsToNat(SubSeq(b, 1, Len(b) - 1)) + b[Len(b)]

Zeros(k) == [i \in 1..k |-> 0]

PadLeft(b, n) == Zeros(n - Len(b)) \o b

\* the carry into bit i of a + b (a and b of one length n): some bit to the
\* right of i generates a carry and every bit between passes it on
CarryIn(a, b, i) ==
  \E j \in (i + 1)..Len(a) :
    /\ a[j] + b[j] = 2
    /\ \A k \in (i + 1)..(j - 1) : a[k] + b[k] = 1

AddBits(a, b) ==
  LET n  == IF Len(a) > Len(b) THEN Len(a) ELSE Len(b)
      pa == PadLeft(a, n + 1)
      pb == PadLeft(b, n + 1)
  IN  StripLead([i \in 1..(n + 1) |->
        (pa[i] + pb[i] + IF CarryIn(pa, pb, i) THEN 1 ELSE 0) % 2])

\* the borrow from bit i of a - b
BorrowIn(a, b, i) ==
  \E j \in (i + 1)..Len(a) :
    /\ a[j] < b[j]
    /\ \A k \in (i + 1)..(j - 1) : a[k] = b[k]

\* a - b for a >= b
SubBits(a, b) ==
  LET pb == PadLeft(b, Len(a))
  IN  StripLead([i \in 1..Len(a) |->
        (2 + a[i] - pb[i] - IF BorrowIn(a, pb, i) THEN 1 ELSE 0) % 2])

\* a >= b, both without leading zeros
GeBits(a, b) ==
  \/ Len(a) > Len(b)
  \/ /\ Len(a) = Len(b)
     /\ \/ a = b
        \/ LET d == CHOOSE i \in 1..Len(a) :
                      a[i] # b[i] /\ \A j \in 1..(i - 1) : a[j] = b[j]
           IN  a[d] = 1

\* a times the number written by bits lo..hi of b
RECURSIVE MulRange(_, _, _, _)
MulRange(a, b, lo, hi) ==
  IF lo = hi THEN (IF b[lo] = 1 THEN a ELSE <<>>)
  ELSE LET mid == (lo + hi) \div 2
           upp == MulRange(a, b, lo, mid)
           low == MulRange(a, b, mid + 1, hi)
       IN  AddBits(IF upp = <<>> THEN <<>> ELSE upp \o Zeros(hi - mid), low)

MulBits(a, b) ==
  IF a = <<>> \/ b = <<>> THEN <<>> ELSE MulRange(a, b, 1, Len(b))

\* long division of bits lo..hi of a by b, entered with remainder r: the
\* quotient bits of the range and the remainder left
RECURSIVE DivRange(_, _, _, _, _)
DivRange(a, b, lo, hi, r) ==
  IF lo = hi
  THEN LET r2 == StripLead(Append(r, a[lo]))
       IN  IF GeBits(r2, b) THEN [q |-> <<1>>, r |-> SubBits(r2, b)]
           ELSE [q |-> <<0>>, r |-> r2]
  ELSE LET mid == (lo + hi) \div 2
           upp == DivRange(a, b, lo, mid, r)
           low == DivRange(a, b, mid + 1, hi, upp.r)
       IN  [q |-> upp.q \o low.q, r |-> low.r]

\* quotient and remainder of a by b, a # 0 and b # 0
DivBits(a, b) ==
  LET d == DivRange(a, b, 1, Len(a), <<>>)
  IN  [q |-> StripLead(d.q), r |-> d.r]

\* b * 2^e with b's trailing zero bits moved into the exponent
StripTrail(b, e) ==
  IF \A i \in 1..Len(b) : b[i] = 0 THEN [m |-> <<>>, e |-> 0]
  ELSE LET k == CHOOSE i \in 1..Len(b) :
                  b[i] = 1 /\ \A j \in (i + 1)..Len(b) : b[j] = 0
       IN  [m |-> SubSeq(b, 1, k), e |-> e + Len(b) - k]

FZero == [neg |-> FALSE, m |-> <<>>, e |-> 0]

\* the double nearest to (-1)^neg * b * 2^e, plus something below one unit of
\* b's last bit when sticky; b has no leading zero
FRound(neg, b, e, sticky) ==
  IF Len(b) <= MantBits
  THEN LET n == StripTrail(b, e)
       IN  [neg |-> neg /\ n.m # <<>>, m |-> n.m, e |-> n.e]
  ELSE LET keep  == SubSeq(b, 1, MantBits)
           guard == b[MantBits + 1]
           rest  == sticky \/ \E i \in (MantBits + 2)..Len(b) : b[i] = 1
           up    == guard = 1 /\ (rest \/ keep[MantBits] = 1)
           r     == IF up THEN AddBits(keep, <<1>>) ELSE keep
           n     == StripTrail(r, e + Len(b) - MantBits)
       IN  [neg |-> neg, m |-> n.m, e |-> n.e]

\* float(i) for an int i
FromInt(i) ==
  FRound(i < 0, NatToBits(IF i < 0 THEN -i ELSE i), 0, FALSE)

FNeg(x) == [x EXCEPT !.neg = ~x.neg /\ x.m # <<>>]

\* x * y
FMul(x, y) ==
  IF x.m = <<>> \/ y.m = <<>> THEN FZero
  ELSE FRound(x.neg # y.neg, MulBits(x.m, y.m), x.e + y.e, FALSE)

\* x / y for y # 0: the dividend is shifted so that the quotient has more than
\* MantBits + 2 bits and the remainder only decides the rounding
FDiv(x, y) ==
  IF x.m = <<>> THEN FZero
  ELSE LET s  == MantBits + 3 + Len(y.m)
           qr == DivBits(x.m \o Zeros(s), y.m)
       IN  FRound(x.neg # y.neg, qr.q, x.e - s - y.e, qr.r # <<>>)

\* the magnitudes of x and y as integers over their common exponent
Aligned(x, y) ==
  LET e == IF x.e < y.e THEN x.e ELSE y.e
  IN  [a |-> IF x.m = <<>> THEN <<>> ELSE x.m \o Zeros(x.e - e),
       b |-> IF y.m = <<>> THEN <<>> ELSE y.m \o Zeros(y.e - e),
       e |-> e]

\* x < y
FLt(x, y) ==
  LET al == Aligned(x, y)
  IN  IF x.neg # y.neg THEN x.neg
      ELSE IF al.a = al.b THEN FALSE
      ELSE IF x.neg THEN GeBits(al.a, al.b) ELSE GeBits(al.b, al.a)

\* x + y
FAdd(x, y) ==
  LET al == Aligned(x, y)
  IN  IF x.neg = y.neg THEN FRound(x.neg, AddBits(al.a, al.b), al.e, FALSE)
      ELSE IF GeBits(al.a, al.b)
           THEN FRound(x.neg, SubBits(al.a, al.b), al.e, FALSE)
           ELSE FRound(y.neg, SubBits(al.b, al.a), al.e, FALSE)

\* x - y
FSub(x, y) == FAdd(x, FNeg(y))

\* int(x): truncation toward zero
FToInt(x) ==
  LET mag == IF x.m = <<>> THEN 0
             ELSE IF x.e >= 0 THEN BitsToNat(x.m \o Zeros(x.e))
             ELSE IF -x.e >= Len(x.m) THEN 0
             ELSE BitsToNat(SubSeq(x.m, 1, Len(x.m) + x.e))
  IN  IF x.neg THEN -mag ELSE mag

F100 == FromInt(100)

\* Python's max(a, b) and min(a, b): the first argument unless the second is
\* strictly greater (smaller)
PyMax(a, b) == IF FLt(a, b) THEN b ELSE a

PyMin(a, b) == IF FLt(b, a) THEN b ELSE a

(***************************************************************************)
(* Optional values (None or a value) are sequences of length at most one.  *)
(***************************************************************************)
None == <<>>

Some(v) == <<v>>

(***************************************************************************)
(* The callers: worker threads calling into one ProgressTracker, and the   *)
(* arguments they pass.                                                    *)
(***************************************************************************)
Threads == {"w1", "w2"}

NoThread == "none"

TaskIds == {"t1", "t2"}

\* (total_items, profile_id, task_type) of the create_task calls
CreateArgs ==
  { [total_items |-> 4, profile_id |-> 7, task_type |-> "file_upload"],
    [total_items |-> 3, profile_id |-> 0, task_type |-> "batch_transcription"],
    [total_items |-> 0, profile_id |-> 7, task_type |-> "file_upload"] }

\* progress arguments of update_progress: below, within and above the range
ProgressInputs == {-50, 75, 150}

UpdateMessages == {None, Some("Uploaded a.wav (1/4)")}

CompleteMessages ==
  {"Task completed successfully", "Transcription completed successfully"}

ErrorMessages == {"disk full"}

\* the words the messages of update_progress are made of where its
\* current_step is looked at: one or two of them make a message
MessageWords ==
  {"", "Uploading ", "PROCESS ", "Transcribing ", "analyzing ",
   "Generated ", "done "}

MessageInputs ==
  {None} \cup {Some(a \o b) : a \in MessageWords, b \in MessageWords}

ProfileFilters == {None, Some(0), Some(7)}

MaxAgeInputs == {0, 1}

\* calls made in one behaviour
MaxCalls == 3

\* clock readings are 0..MaxClock ticks of SecondsPerTick seconds
MaxClock == 2
MaxRequests == 2
MaxFiles == 2

SecondsPerTick == 45

VARIABLES
  tasks,      \* self.tasks: task_id -> its dict (None when the key is absent)
  lock,       \* self.lock: the thread holding it, or NoThread
  pc,         \* where each thread is in the code
  frame,      \* the arguments and locals of each thread's call
  held,       \* the dict or map each thread was handed by its last query
  event,      \* the call the last step completed, with what it returned,
              \* or the read the last step made
  committed,  \* task_id -> the states its dict had when a call on it completed
  clock,      \* datetime.now()
  calls,      \* calls made so far
  upload_tasks,  \* the tasks of upload_controller.py's own ProgressTracker()
  requests,   \* the requests to the upload and transcription handlers
  running     \* the request whose code the event loop is running, or 0

vars == <<tasks, lock, pc, frame, held, event, committed, clock, calls,
          upload_tasks, requests, running>>

\* what the calls of the registry's own threads leave alone
handlers == <<upload_tasks, requests, running>>

\* what the handlers' calls leave alone
threads == <<lock, pc, frame, held, committed, calls>>

Requests == 1..MaxRequests

\* a request not made yet
NoRequest ==
  [kind |-> "", task_id |-> "", files |-> 0, index |-> 0, pos |-> ""]

\* arguments and locals of a call; found: the `task` local is set
NoFrame ==
  [op |-> "", task_id |-> "", progress |-> FZero, message |-> None,
   total_items |-> 0, profile_id |-> None, task_type |-> "",
   max_age_minutes |-> 0, found |-> FALSE, nested |-> FALSE]

(***************************************************************************)
(* References.  get_progress and get_all_tasks hand out the dicts of the   *)
(* map, not copies.  A reference is to the dict the map holds under a key  *)
(* (to), or, once create_task or cleanup_old_tasks has taken that dict out *)
(* of the map, to the dict as it was left (copy): no call reaches a dict   *)
(* that is not in the map, so it no longer changes.                        *)
(***************************************************************************)
NoRef == [to |-> "", copy |-> None]

RefTo(i) == [to |-> i, copy |-> None]

\* what a thread holds: nothing, a dict (get_progress), the map itself
\* (get_all_tasks), or a new dict of references (get_all_tasks with a filter)
NoValue == [kind |-> "None", ref |-> NoRef, map |-> [i \in TaskIds |-> NoRef]]

\* the reference r after the dict under key i, then in state d, left the map
DetachRef(r, i, d) == IF r.to = i THEN [to |-> "", copy |-> Some(d)] ELSE r

Detach(hd, i, d) ==
  [t \in Threads |->
     [hd[t] EXCEPT !.ref = DetachRef(@, i, d),
                   !.map = [j \in TaskIds |-> DetachRef(@[j], i, d)]]]

\* the dict a reference leads to
Deref(r) == IF r.to # "" THEN tasks[r.to][1] ELSE r.copy[1]

NoEvent ==
  [op |-> "", thread |-> NoThread, args |-> NoFrame, result |-> "",
   id |-> "", data |-> None, whole |-> TRUE]

Init ==
  /\ tasks = [i \in TaskIds |-> None]
  /\ lock = NoThread
  /\ pc = [t \in Threads |-> "idle"]
  /\ frame = [t \in Threads |-> NoFrame]
  /\ held = [t \in Threads |-> NoValue]
  /\ event = NoEvent
  /\ committed = [i \in TaskIds |-> {}]
  /\ clock = 0
  /\ calls = 0
  /\ upload_tasks = [i \in TaskIds |-> None]
  /\ requests = [r \in Requests |-> NoRequest]
  /\ running = 0

(***************************************************************************)
(* Arithmetic of the registry.                                             *)
(***************************************************************************)
\* a clamp without the lower bound: min(100.0, progress)
ClampProgress_NoLowerBound(progress) == PyMin(F100, progress)

\* min(100.0, max(0.0, progress))
ClampProgress(progress) == PyMin(F100, PyMax(FZero, progress))

\* int((progress / 100.0) * total_items)
CompletedOf(progress, total_items) ==
  FToInt(FMul(FDiv(progress, F100), FromInt(total_items)))

\* (completed / total_items) * 100.0, total_items # 0
ProgressOf(completed, total_items) ==
  FMul(FDiv(FromInt(completed), FromInt(total_items)), F100)

\* max(0, elapsed / (progress / 100.0) - elapsed), elapsed in seconds
RemainingOf(progress, elapsed) ==
  LET e == FromInt(elapsed)
  IN  PyMax(FZero, FSub(FDiv(e, FDiv(progress, F100)), e))

\* an age test that also holds at the limit: age >= max_age_minutes
OlderThan_OrEqual(seconds, max_age_minutes) ==
  ~FLt(FDiv(FromInt(seconds), FromInt(60)), FromInt(max_age_minutes))

\* (current_time - last_update).total_seconds() / 60.0 > max_age_minutes
OlderThan(seconds, max_age_minutes) ==
  FLt(FromInt(max_age_minutes), FDiv(FromInt(seconds), FromInt(60)))

\* The values of the operators above on the arguments the callers of this
\* model pass, computed once.  Tabulate(f) is the function f written out as
\* an explicit table.
RECURSIVE TabulateOn(_, _)
TabulateOn(f, S) ==
  IF S = {} THEN <<>>
  ELSE LET k == CHOOSE x \in S : TRUE
       IN  (k :> f[k]) @@ TabulateOn(f, S \ {k})

Tabulate(f) == TabulateOn(f, DOMAIN f)

TotalItemsInputs == {c.total_items : c \in CreateArgs} \cup 1..MaxFiles

ProgressArgs == {FromInt(p) : p \in ProgressInputs}

\* the progress the handlers pass: 10 and 80 (transcribe_controller.py, lines
\* 66 and 71) and (index + 1) / len(files) * 100 (upload_controller.py, 101)
HandlerProgressArgs ==
  {FromInt(10), FromInt(80)}
    \cup {ProgressOf(i, n) : i \in 1..MaxFiles, n \in 1..MaxFiles}

ClampTable ==
  Tabulate([p \in ProgressArgs \cup HandlerProgressArgs |-> ClampProgress(p)])

CompletedTable ==
  Tabulate([k \in (ProgressArgs \cup HandlerProgressArgs) \X TotalItemsInputs |->
              CompletedOf(k[1], k[2])])

CompletedItemsInputs ==
  {0} \cup TotalItemsInputs \cup {CompletedTable[k] : k \in DOMAIN CompletedTable}

ProgressTable ==
  Tabulate([k \in {c + 1 : c \in CompletedItemsInputs} \X (TotalItemsInputs \ {0}) |->
              ProgressOf(k[1], k[2])])

ElapsedInputs == {SecondsPerTick * d : d \in 0..MaxClock}

RemainingTable ==
  Tabulate([k \in {p \in ProgressArgs \cup HandlerProgressArgs : FLt(FZero, p)}
                   \X ElapsedInputs |->
              RemainingOf(k[1], k[2])])

OlderTable ==
  Tabulate([k \in ElapsedInputs \X MaxAgeInputs |-> OlderThan(k[1], k[2])])

clamped(progress) ==
  IF progress \in DOMAIN ClampTable THEN ClampTable[progress]
  ELSE ClampProgress(progress)

completed_items_of(progress, total_items) ==
  IF <<progress, total_items>> \in DOMAIN CompletedTable
  THEN CompletedTable[<<progress, total_items>>]
  ELSE CompletedOf(progress, total_items)

progress_of(completed, total_items) ==
  IF <<completed, total_items>> \in DOMAIN ProgressTable
  THEN ProgressTable[<<completed, total_items>>]
  ELSE ProgressOf(completed, total_items)

remaining_of(progress, elapsed) ==
  IF <<progress, elapsed>> \in DOMAIN RemainingTable
  THEN RemainingTable[<<progress, elapsed>>]
  ELSE RemainingOf(progress, elapsed)

older_than(seconds, max_age_minutes) ==
  IF <<seconds, max_age_minutes>> \in DOMAIN OlderTable
  THEN OlderTable[<<seconds, max_age_minutes>>]
  ELSE OlderThan(seconds, max_age_minutes)

(***************************************************************************)
(* Strings.                                                                *)
(***************************************************************************)
UpperToLower ==
  [c \in {"A", "B", "C", "D", "E", "F", "G", "H", "I", "J", "K", "L", "M",
          "N", "O", "P", "Q", "R", "S", "T", "U", "V", "W", "X", "Y", "Z"} |->
     CASE c = "A" -> "a" [] c = "B" -> "b" [] c = "C" -> "c" [] c = "D" -> "d"
       [] c = "E" -> "e" [] c = "F" -> "f" [] c = "G" -> "g" [] c = "H" -> "h"
       [] c = "I" -> "i" [] c = "J" -> "j" [] c = "K" -> "k" [] c = "L" -> "l"
       [] c = "M" -> "m" [] c = "N" -> "n" [] c = "O" -> "o" [] c = "P" -> "p"
       [] c = "Q" -> "q" [] c = "R" -> "r" [] c = "S" -> "s" [] c = "T" -> "t"
       [] c = "U" -> "u" [] c = "V" -> "v" [] c = "W" -> "w" [] c = "X" -> "x"
       [] c = "Y" -> "y" [] c = "Z" -> "z"]

\* message.lower()
RECURSIVE Lower(_)
Lower(s) ==
  IF Len(s) = 0 THEN ""
  ELSE LET c == SubSeq(s, 1, 1)
       IN  (IF c \in DOMAIN UpperToLower THEN UpperToLower[c] ELSE c)
             \o Lower(SubSeq(s, 2, Len(s)))

\* sub in s
Contains(s, sub) ==
  \E i \in 1..(Len(s) - Len(sub) + 1) : SubSeq(s, i, i + Len(sub) - 1) = sub

\* an _extract_step_from_message that looks for 'process' before 'upload'
_extract_step_from_message_ProcessFirst(message) ==
  LET m == Lower(message)
  IN  IF Contains(m, "process") THEN "Processing"
      ELSE IF Contains(m, "upload") THEN "Uploading"
      ELSE IF Contains(m, "transcri") THEN "Transcribing"
      ELSE IF Contains(m, "analyz") THEN "Analyzing"
      ELSE IF Contains(m, "generat") THEN "Generating"
      ELSE "Processing"

_extract_step_from_message(message) ==
  LET m == Lower(message)
  IN  IF Contains(m, "upload") THEN "Uploading"
      ELSE IF Contains(m, "process") THEN "Processing"
      ELSE IF Contains(m, "transcri") THEN "Transcribing"
      ELSE IF Contains(m, "analyz") THEN "Analyzing"
      ELSE IF Contains(m, "generat") THEN "Generating"
      ELSE "Processing"

\* `if message:` is false for None and for the empty string
Truthy(message) == message # None /\ message[1] # ""

(***************************************************************************)
(* How calls begin, go on and end.                                         *)
(***************************************************************************)
\* the call of thread t with arguments f returns: `result` is the kind of
\* value returned ("None", "str", "dict", "tasks", "filtered") or the
\* exception raised
Return(t, f, result, id) ==
  /\ pc' = [pc EXCEPT ![t] = "idle"]
  /\ frame' = [frame EXCEPT ![t] = NoFrame]
  /\ event' = [NoEvent EXCEPT !.op = f.op, !.thread = t, !.args = f,
                              !.result = result, !.id = id]
  /\ UNCHANGED handlers

\* a call that raises KeyError when it finds no dict for its task_id
Ignore_Raising(t, f) ==
  /\ Return(t, f, "KeyError", "")
  /\ held' = [held EXCEPT ![t] = NoValue]
  /\ UNCHANGED <<tasks, lock, committed, clock>>

\* what a call that found no dict for its task_id does: nothing
Ignore(t, f) ==
  /\ Return(t, f, "None", "")
  /\ held' = [held EXCEPT ![t] = NoValue]
  /\ UNCHANGED <<tasks, lock, committed, clock>>

\* the first statement of a call on the dict under f.task_id, with the lock
\* taken: the dict becomes d, and the thread goes on at `next`
Begin(t, f, d, next) ==
  /\ lock' = t
  /\ tasks' = [tasks EXCEPT ![f.task_id] = Some(d)]
  /\ pc' = [pc EXCEPT ![t] = next]
  /\ frame' = [frame EXCEPT ![t] = [f EXCEPT !.found = TRUE]]
  /\ held' = [held EXCEPT ![t] = NoValue]
  /\ event' = NoEvent
  /\ UNCHANGED <<committed, clock>>
  /\ UNCHANGED handlers

\* a later statement of the lock holder t: its dict becomes d
Step(t, d, next) ==
  /\ tasks' = [tasks EXCEPT ![frame[t].task_id] = Some(d)]
  /\ pc' = [pc EXCEPT ![t] = next]
  /\ event' = NoEvent
  /\ UNCHANGED <<lock, frame, held, committed, clock, calls>>
  /\ UNCHANGED handlers

\* the last statement of the lock holder t: its dict becomes d, the `with`
\* block is left, which releases the lock, and the call returns
End(t, d) ==
  /\ tasks' = [tasks EXCEPT ![frame[t].task_id] = Some(d)]
  /\ lock' = NoThread
  /\ Return(t, frame[t], "None", "")
  /\ committed' = [committed EXCEPT ![frame[t].task_id] = @ \cup {d}]
  /\ UNCHANGED <<held, clock, calls>>

\* the dict the lock holder t works on
Task(t) == tasks[frame[t].task_id][1]

(***************************************************************************)
(* create_task: the dict is built and stored in one step under the lock;   *)
(* datetime.now() is read twice, and the clock may advance in between.     *)
(***************************************************************************)
\* a create_task that stores the dict with total_items already counted as done
NewTask_AllDone(f, start, last) ==
  [task_id         |-> f.task_id,
   profile_id      |-> f.profile_id[1],
   task_type       |-> f.task_type,
   total_items     |-> f.total_items,
   completed_items |-> f.total_items,
   progress        |-> FZero,
   current_step    |-> "Initializing...",
   message         |-> "Starting task...",
   start_time      |-> start,
   last_update     |-> last,
   status          |-> "running",
   estimated_time  |-> None]

NewTask(f, start, last) ==
  [task_id         |-> f.task_id,
   profile_id      |-> f.profile_id[1],
   task_type       |-> f.task_type,
   total_items     |-> f.total_items,
   completed_items |-> 0,
   progress        |-> FZero,
   current_step    |-> "Initializing...",
   message         |-> "Starting task...",
   start_time      |-> start,
   last_update     |-> last,
   status          |-> "running",
   estimated_time  |-> None]

\* a create_task that keeps the dict of a task_id it finds in the map
create_task_KeepExisting(t, f) ==
  IF tasks[f.task_id] # None
  THEN /\ Return(t, f, "str", f.task_id)
       /\ held' = [held EXCEPT ![t] = NoValue]
       /\ UNCHANGED <<tasks, lock, committed, clock>>
  ELSE LET d == NewTask(f, clock, clock)
       IN  /\ tasks' = [tasks EXCEPT ![f.task_id] = Some(d)]
           /\ held' = [held EXCEPT ![t] = NoValue]
           /\ committed' = [committed EXCEPT ![f.task_id] = {d}]
           /\ Return(t, f, "str", f.task_id)
           /\ UNCHANGED <<lock, clock>>

create_task(t, f) ==
  \E last \in {clock, IF clock < MaxClock THEN clock + 1 ELSE clock} :
    LET d == NewTask(f, clock, last)
        hd == [held EXCEPT ![t] = NoValue]
    IN  /\ tasks' = [tasks EXCEPT ![f.task_id] = Some(d)]
        /\ held' = IF tasks[f.task_id] = None THEN hd
                   ELSE Detach(hd, f.task_id, tasks[f.task_id][1])
        /\ committed' = [committed EXCEPT ![f.task_id] = {d}]
        /\ clock' = last
        /\ Return(t, f, "str", f.task_id)
        /\ UNCHANGED lock

(***************************************************************************)
(* update_progress, statement by statement.                                *)
(***************************************************************************)
update_progress(t, f) ==
  IF tasks[f.task_id] = None THEN Ignore(t, f)
  ELSE Begin(t, f,
             [tasks[f.task_id][1] EXCEPT !.progress = clamped(f.progress)],
             "update_progress_44")

\* an update_progress that writes the items count into total_items
update_progress_44_IntoTotal(t) ==
  /\ pc[t] = "update_progress_44"
  /\ Step(t, [Task(t) EXCEPT !.total_items =
                completed_items_of(frame[t].progress, Task(t).total_items)],
          IF Truthy(frame[t].message) THEN "update_progress_47"
          ELSE "update_progress_50")

update_progress_44(t) ==
  /\ pc[t] = "update_progress_44"
  /\ Step(t, [Task(t) EXCEPT !.completed_items =
                completed_items_of(frame[t].progress, Task(t).total_items)],
          IF Truthy(frame[t].message) THEN "update_progress_47"
          ELSE "update_progress_50")

\* an update_progress that puts the task back to running with its message
update_progress_47_Running(t) ==
  /\ pc[t] = "update_progress_47"
  /\ Step(t, [Task(t) EXCEPT !.message = frame[t].message[1],
                             !.status = "running"],
          "update_progress_48")

update_progress_47(t) ==
  /\ pc[t] = "update_progress_47"
  /\ Step(t, [Task(t) EXCEPT !.message = frame[t].message[1]],
          "update_progress_48")

update_progress_48(t) ==
  /\ pc[t] = "update_progress_48"
  /\ Step(t, [Task(t) EXCEPT !.current_step =
                _extract_step_from_message(frame[t].message[1])],
          "update_progress_50")

\* an update_progress that puts the task back to running when it is updated
update_progress_50_Reopens(t) ==
  /\ pc[t] = "update_progress_50"
  /\ LET d == [Task(t) EXCEPT !.last_update = clock, !.status = "running"]
     IN  IF FLt(FZero, frame[t].progress)
         THEN Step(t, d, "update_progress_54")
         ELSE End(t, d)

update_progress_50(t) ==
  /\ pc[t] = "update_progress_50"
  /\ LET d == [Task(t) EXCEPT !.last_update = clock]
     IN  IF FLt(FZero, frame[t].progress)
         THEN Step(t, d, "update_progress_54")
         ELSE End(t, d)

update_progress_54(t) ==
  /\ pc[t] = "update_progress_54"
  /\ LET elapsed == SecondsPerTick * (clock - Task(t).start_time)
     IN  End(t, [Task(t) EXCEPT !.estimated_time =
                   Some(remaining_of(frame[t].progress, elapsed))])

(***************************************************************************)
(* increment_progress: computes the progress under the lock and calls      *)
(* update_progress, which begins with `with self.lock`.                    *)
(***************************************************************************)
increment_progress(t, f) ==
  IF tasks[f.task_id] = None THEN Ignore(t, f)
  ELSE LET task == tasks[f.task_id][1]
       IN  IF task.total_items = 0
           THEN /\ Return(t, f, "ZeroDivisionError", "")
                /\ held' = [held EXCEPT ![t] = NoValue]
                /\ UNCHANGED <<tasks, lock, committed, clock>>
           ELSE /\ lock' = t
                /\ pc' = [pc EXCEPT ![t] = "update_progress"]
                /\ frame' = [frame EXCEPT ![t] =
                     [f EXCEPT !.found = TRUE,
                               !.nested = TRUE,
                               !.progress = progress_of(task.completed_items + 1,
                                                        task.total_items)]]
                /\ held' = [held EXCEPT ![t] = NoValue]
                /\ event' = NoEvent
                /\ UNCHANGED <<tasks, committed, clock>>
                /\ UNCHANGED handlers

(***************************************************************************)
(* complete_task and fail_task, statement by statement.                    *)
(***************************************************************************)
\* a complete_task that leaves progress as it was
complete_task_KeepsProgress(t, f) ==
  IF tasks[f.task_id] = None THEN Ignore(t, f)
  ELSE Begin(t, f, tasks[f.task_id][1], "complete_task_78")

complete_task(t, f) ==
  IF tasks[f.task_id] = None THEN Ignore(t, f)
  ELSE Begin(t, f, [tasks[f.task_id][1] EXCEPT !.progress = F100],
             "complete_task_78")

\* a complete_task that leaves completed_items as it was
complete_task_78_Skipped(t) ==
  /\ pc[t] = "complete_task_78"
  /\ Step(t, Task(t), "complete_task_79")

complete_task_78(t) ==
  /\ pc[t] = "complete_task_78"
  /\ Step(t, [Task(t) EXCEPT !.completed_items = Task(t).total_items],
          "complete_task_79")

complete_task_79(t) ==
  /\ pc[t] = "complete_task_79"
  /\ Step(t, [Task(t) EXCEPT !.message = frame[t].message[1]],
          "complete_task_80")

complete_task_80(t) ==
  /\ pc[t] = "complete_task_80"
  /\ Step(t, [Task(t) EXCEPT !.status = "completed"], "complete_task_81")

complete_task_81(t) ==
  /\ pc[t] = "complete_task_81"
  /\ End(t, [Task(t) EXCEPT !.last_update = clock])

\* a fail_task that stores error_message without the "Failed: " in front
fail_task_BareMessage(t, f) ==
  IF tasks[f.task_id] = None THEN Ignore(t, f)
  ELSE Begin(t, f, [tasks[f.task_id][1] EXCEPT !.message = f.message[1]],
             "fail_task_91")

fail_task(t, f) ==
  IF tasks[f.task_id] = None THEN Ignore(t, f)
  ELSE Begin(t, f,
             [tasks[f.task_id][1] EXCEPT !.message = "Failed: " \o f.message[1]],
             "fail_task_91")

\* a fail_task that also sets progress back to 0.0
fail_task_91_ResetProgress(t) ==
  /\ pc[t] = "fail_task_91"
  /\ Step(t, [Task(t) EXCEPT !.status = "failed", !.progress = FZero],
          "fail_task_92")

fail_task_91(t) ==
  /\ pc[t] = "fail_task_91"
  /\ Step(t, [Task(t) EXCEPT !.status = "failed"], "fail_task_92")

\* a fail_task that ends by taking the failed task out of the map
fail_task_92_Removes(t) ==
  /\ pc[t] = "fail_task_92"
  /\ tasks' = [tasks EXCEPT ![frame[t].task_id] = None]
  /\ held' = Detach(held, frame[t].task_id, Task(t))
  /\ committed' = [committed EXCEPT ![frame[t].task_id] = {}]
  /\ lock' = NoThread
  /\ Return(t, frame[t], "None", "")
  /\ UNCHANGED <<clock, calls>>

fail_task_92(t) ==
  /\ pc[t] = "fail_task_92"
  /\ End(t, [Task(t) EXCEPT !.last_update = clock])

(***************************************************************************)
(* The queries.  get_progress returns the dict of the map itself;          *)
(* get_all_tasks returns the map itself, or a new dict of the entries      *)
(* whose profile_id matches when `if profile_id:` holds.                   *)
(***************************************************************************)
get_progress(t, f) ==
  /\ IF tasks[f.task_id] = None
     THEN /\ held' = [held EXCEPT ![t] = NoValue]
          /\ Return(t, f, "None", "")
     ELSE /\ held' = [held EXCEPT ![t] =
                        [NoValue EXCEPT !.kind = "dict", !.ref = RefTo(f.task_id)]]
          /\ Return(t, f, "dict", "")
  /\ UNCHANGED <<tasks, lock, committed, clock>>

get_all_tasks(t, f) ==
  /\ IF f.profile_id # None /\ f.profile_id[1] # 0
     THEN /\ held' = [held EXCEPT ![t] =
                [NoValue EXCEPT
                   !.kind = "filtered",
                   !.map = [i \in TaskIds |->
                              IF tasks[i] # None
                                   /\ tasks[i][1].profile_id = f.profile_id[1]
                              THEN RefTo(i) ELSE NoRef]]]
          /\ Return(t, f, "filtered", "")
     ELSE /\ held' = [held EXCEPT ![t] = [NoValue EXCEPT !.kind = "tasks"]]
          /\ Return(t, f, "tasks", "")
  /\ UNCHANGED <<tasks, lock, committed, clock>>

(***************************************************************************)
(* cleanup_old_tasks.                                                      *)
(***************************************************************************)
\* a sweep that goes by age alone, whatever the status
tasks_to_remove_AnyStatus(current_time, max_age_minutes) ==
  {i \in TaskIds :
     /\ tasks[i] # None
     /\ older_than(SecondsPerTick * (current_time - tasks[i][1].last_update),
                   max_age_minutes)}

tasks_to_remove(current_time, max_age_minutes) ==
  {i \in TaskIds :
     /\ tasks[i] # None
     /\ tasks[i][1].status \in {"completed", "failed"}
     /\ older_than(SecondsPerTick * (current_time - tasks[i][1].last_update),
                   max_age_minutes)}

\* the references of hd after the dicts under the keys of `gone` left the map
RECURSIVE DetachAll(_, _)
DetachAll(hd, gone) ==
  IF gone = {} THEN hd
  ELSE LET i == CHOOSE j \in gone : TRUE
       IN  DetachAll(Detach(hd, i, tasks[i][1]), gone \ {i})

cleanup_old_tasks(t, f) ==
  LET gone == tasks_to_remove(clock, f.max_age_minutes)
  IN  /\ tasks' = [i \in TaskIds |-> IF i \in gone THEN None ELSE tasks[i]]
      /\ held' = DetachAll([held EXCEPT ![t] = NoValue], gone)
      /\ committed' = [i \in TaskIds |-> IF i \in gone THEN {} ELSE committed[i]]
      /\ Return(t, f, "None", "")
      /\ UNCHANGED <<lock, clock>>

(***************************************************************************)
(* A thread calls an operation of the registry and lets go of what its     *)
(* previous call returned.  Every operation begins with `with self.lock`:  *)
(* the call goes on when the lock is free and waits there when it is not.  *)
(* The arguments are drawn when the body begins.                           *)
(***************************************************************************)
Operations ==
  {"create_task", "update_progress", "increment_progress", "complete_task",
   "fail_task", "get_progress", "get_all_tasks", "cleanup_old_tasks"}

Arguments(op) ==
  CASE op = "create_task" ->
         {[NoFrame EXCEPT !.op = op, !.task_id = i,
                          !.total_items = c.total_items,
                          !.profile_id = Some(c.profile_id),
                          !.task_type = c.task_type] :
            i \in TaskIds, c \in CreateArgs}
    [] op = "update_progress" ->
         {[NoFrame EXCEPT !.op = op, !.task_id = i, !.progress = p,
                          !.message = m] :
            i \in TaskIds, p \in ProgressArgs, m \in UpdateMessages}
    [] op = "increment_progress" ->
         {[NoFrame EXCEPT !.op = op, !.task_id = i, !.message = m] :
            i \in TaskIds, m \in UpdateMessages}
    [] op = "complete_task" ->
         {[NoFrame EXCEPT !.op = op, !.task_id = i, !.message = Some(m)] :
            i \in TaskIds, m \in CompleteMessages}
    [] op = "fail_task" ->
         {[NoFrame EXCEPT !.op = op, !.task_id = i, !.message = Some(m)] :
            i \in TaskIds, m \in ErrorMessages}
    [] op = "get_progress" ->
         {[NoFrame EXCEPT !.op = op, !.task_id = i] : i \in TaskIds}
    [] op = "get_all_tasks" ->
         {[NoFrame EXCEPT !.op = op, !.profile_id = p] : p \in ProfileFilters}
    [] op = "cleanup_old_tasks" ->
         {[NoFrame EXCEPT !.op = op, !.max_age_minutes = m] : m \in MaxAgeInputs}

Body(op, t, f) ==
  CASE op = "create_task" -> create_task(t, f)
    [] op = "update_progress" -> update_progress(t, f)
    [] op = "increment_progress" -> increment_progress(t, f)
    [] op = "complete_task" -> complete_task(t, f)
    [] op = "fail_task" -> fail_task(t, f)
    [] op = "get_progress" -> get_progress(t, f)
    [] op = "get_all_tasks" -> get_all_tasks(t, f)
    [] op = "cleanup_old_tasks" -> cleanup_old_tasks(t, f)

Call(t) ==
  /\ pc[t] = "idle"
  /\ calls < MaxCalls
  /\ calls' = calls + 1
  /\ \E op \in Operations :
       IF lock = NoThread
       THEN \E f \in Arguments(op) : Body(op, t, f)
       ELSE /\ pc' = [pc EXCEPT ![t] = op]
            /\ held' = [held EXCEPT ![t] = NoValue]
            /\ event' = NoEvent
            /\ UNCHANGED <<tasks, lock, frame, committed, clock>>
            /\ UNCHANGED handlers

\* a thread waiting at `with self.lock` takes the lock: a caller, or the
\* update_progress that increment_progress called
Acquire(t) ==
  /\ pc[t] \in Operations
  /\ lock = NoThread
  /\ \E f \in IF frame[t].nested THEN {frame[t]} ELSE Arguments(pc[t]) :
       Body(pc[t], t, f)
  /\ UNCHANGED calls

(***************************************************************************)
(* The caller of get_progress reads the dict it was handed (the progress   *)
(* endpoints serialise it), outside the lock, and lets go of it.  `whole`  *)
(* records whether what it read is a state the dict had when some call on  *)
(* it had completed.                                                       *)
(***************************************************************************)
read_progress(t) ==
  /\ pc[t] = "idle"
  /\ held[t].kind = "dict"
  /\ LET r == held[t].ref
         d == Deref(r)
     IN  event' = [NoEvent EXCEPT !.op = "read_progress", !.thread = t,
                                  !.data = Some(d),
                                  !.whole = (r.to = "" \/ d \in committed[r.to])]
  /\ held' = [held EXCEPT ![t] = NoValue]
  /\ UNCHANGED <<tasks, lock, pc, frame, committed, clock, calls>>
  /\ UNCHANGED handlers

\* time passes
Tick ==
  /\ clock < MaxClock
  /\ clock' = clock + 1
  /\ event' = NoEvent
  /\ UNCHANGED <<tasks, lock, pc, frame, held, committed, calls>>
  /\ UNCHANGED handlers

ThreadStep(t) ==
  \/ Call(t)
  \/ Acquire(t)
  \/ update_progress_44(t)
  \/ update_progress_47(t)
  \/ update_progress_48(t)
  \/ update_progress_50(t)
  \/ update_progress_54(t)
  \/ complete_task_78(t)
  \/ complete_task_79(t)
  \/ complete_task_80(t)
  \/ complete_task_81(t)
  \/ fail_task_91(t)
  \/ fail_task_92(t)
  \/ read_progress(t)

Next == Tick \/ \E t \in Threads : ThreadStep(t)

Spec == Init /\ [][Next]_vars

\* every thread keeps running: what it can do, it eventually does
FairSpec == Spec /\ \A t \in Threads : WF_vars(ThreadStep(t))

(***************************************************************************)
(* The handlers of upload_controller.py and transcribe_controller.py.  All *)
(* are `async def` and run on the one event loop; none of the awaits in    *)
(* their bodies suspends (whisper_handler.py's transcribe_audio does its   *)
(* work in plain calls), so a handler's code, and the background jobs of   *)
(* a request, run from start to end with no other handler in between.      *)
(* Each action below is one registry call of a handler; `running` keeps    *)
(* the other handlers out while a request's code runs.                     *)
(***************************************************************************)
\* the handlers that use upload_controller.py's own ProgressTracker()
\* (line 22); the others use progress_tracker.py's global one (line 146)
UploadHandlers == {"upload_multiple_files", "get_upload_progress"}

TrackerOf(handler) ==
  IF handler \in UploadHandlers THEN upload_tasks ELSE tasks

Digit(n) == SubSeq("0123456789", n + 1, n + 1)

\* f"Uploaded {secure_filename} ({index + 1}/{len(files)})"
UploadedMessage(index, files) ==
  "Uploaded a.wav (" \o Digit(index + 1) \o "/" \o Digit(files) \o ")"

\* the messages the handlers pass to update_progress
\* (transcribe_controller.py, lines 66 and 71; upload_controller.py, 102)
HandlerMessages ==
  {"Starting transcription...", "Saving transcription..."}
    \cup {UploadedMessage(i, n) : i \in 0..(MaxFiles - 1), n \in 1..MaxFiles}

StepTable ==
  Tabulate([m \in HandlerMessages |-> _extract_step_from_message(m)])

\* _extract_step_from_message(message), from StepTable where it has it
current_step_of(message) ==
  IF message \in DOMAIN StepTable THEN StepTable[message]
  ELSE _extract_step_from_message(message)

\* update_progress from its first statement to its last, on the dict d
update_progress_call(d, progress, message, now) ==
  [d EXCEPT
     !.progress = clamped(progress),
     !.completed_items = completed_items_of(progress, d.total_items),
     !.message = IF Truthy(message) THEN message[1] ELSE @,
     !.current_step = IF Truthy(message)
                      THEN current_step_of(message[1]) ELSE @,
     !.last_update = now,
     !.estimated_time =
        IF FLt(FZero, progress)
        THEN Some(remaining_of(progress,
                               SecondsPerTick * (now - d.start_time)))
        ELSE @]

\* complete_task from its first statement to its last, on the dict d
complete_task_call(d, message, now) ==
  [d EXCEPT !.progress = F100,
            !.completed_items = d.total_items,
            !.message = message,
            !.status = "completed",
            !.last_update = now]

\* fail_task from its first statement to its last, on the dict d
fail_task_call(d, error_message, now) ==
  [d EXCEPT !.message = "Failed: " \o error_message,
            !.status = "failed",
            !.last_update = now]

\* what a registry holds under f.task_id after the call op(f)
AfterCall(entry, op, f) ==
  CASE op = "create_task" -> Some(NewTask(f, clock, clock))
    [] entry = None -> None
    [] op = "update_progress" ->
         Some(update_progress_call(entry[1], f.progress, f.message, clock))
    [] op = "complete_task" ->
         Some(complete_task_call(entry[1], f.message[1], clock))
    [] op = "fail_task" ->
         Some(fail_task_call(entry[1], f.message[1], clock))

\* the handler makes the call op(f) on its registry
RegistryCall(handler, op, f) ==
  \E entry \in {TrackerOf(handler)[f.task_id]} :
    \E after \in {AfterCall(entry, op, f)} :
      /\ IF handler \in UploadHandlers
         THEN /\ upload_tasks' = [upload_tasks EXCEPT ![f.task_id] = after]
              /\ UNCHANGED tasks
         ELSE /\ tasks' = [tasks EXCEPT ![f.task_id] = after]
              /\ UNCHANGED upload_tasks
      /\ event' = [NoEvent EXCEPT
                     !.op = op, !.thread = handler,
                     !.args = [f EXCEPT !.op = op, !.found = entry # None],
                     !.result = IF op = "create_task" THEN "str" ELSE "None",
                     !.id = IF op = "create_task" THEN f.task_id ELSE ""]
      /\ UNCHANGED threads
      /\ UNCHANGED clock

\* str(uuid.uuid4()): an id no request has been given
NewIds == TaskIds \ {requests[r].task_id : r \in Requests}

\* the request r is the next one to be made
NextRequest(r) ==
  /\ running = 0
  /\ requests[r] = NoRequest
  /\ \A q \in Requests : q < r => requests[q] # NoRequest

\* upload_multiple_files up to its create_task (lines 24-48)
upload_multiple_files(r) ==
  /\ NextRequest(r)
  /\ \E id \in NewIds, n \in 1..MaxFiles :
       /\ requests' = [requests EXCEPT ![r] =
            [kind |-> "upload_multiple_files", task_id |-> id,
             files |-> n, index |-> 0, pos |-> "files"]]
       /\ RegistryCall("upload_multiple_files", "create_task",
            [NoFrame EXCEPT !.task_id = id, !.total_items = n,
                            !.profile_id = Some(7),
                            !.task_type = "file_upload"])
  /\ running' = r

\* one turn of its loop (lines 50-114): the file is stored and
\* update_progress is called, or the file is of an invalid type or raises
\* and the loop goes on to the next
upload_multiple_files_50(r) ==
  /\ running = r
  /\ requests[r].pos = "files"
  /\ requests[r].index < requests[r].files
  /\ requests' = [requests EXCEPT ![r].index = @ + 1]
  /\ \E stored \in BOOLEAN :
       IF stored
       THEN RegistryCall("upload_multiple_files", "update_progress",
              [NoFrame EXCEPT
                 !.task_id = requests[r].task_id,
                 !.progress = progress_of(requests[r].index + 1,
                                          requests[r].files),
                 !.message = Some(UploadedMessage(requests[r].index,
                                                  requests[r].files))])
       ELSE /\ event' = NoEvent
            /\ UNCHANGED <<tasks, upload_tasks, clock>>
            /\ UNCHANGED threads
  /\ UNCHANGED running

\* its complete_task after the loop and its response (lines 116-127)
upload_multiple_files_117(r) ==
  /\ running = r
  /\ requests[r].pos = "files"
  /\ requests[r].index = requests[r].files
  /\ requests' = [requests EXCEPT ![r].pos = "returned"]
  /\ RegistryCall("upload_multiple_files", "complete_task",
       [NoFrame EXCEPT !.task_id = requests[r].task_id,
                       !.message = Some("Task completed successfully")])
  /\ running' = 0

\* transcribe_audio_file: create_task with one item, and one
\* process_transcription job for the time after the response (lines 34-42)
transcribe_audio_file(r) ==
  /\ NextRequest(r)
  /\ \E id \in NewIds :
       /\ requests' = [requests EXCEPT ![r] =
            [kind |-> "transcribe_audio_file", task_id |-> id,
             files |-> 1, index |-> 0, pos |-> "scheduled"]]
       /\ RegistryCall("transcribe_audio_file", "create_task",
            [NoFrame EXCEPT !.task_id = id, !.total_items = 1,
                            !.profile_id = Some(7),
                            !.task_type = "transcription"])
  /\ UNCHANGED running

\* transcribe_all_audio_files: one create_task for all the audio files
\* found, there being at least one, and one process_transcription job for
\* each file, all with the same task_id (lines 111-130)
transcribe_all_audio_files(r) ==
  /\ NextRequest(r)
  /\ \E id \in NewIds, n \in 1..MaxFiles :
       /\ requests' = [requests EXCEPT ![r] =
            [kind |-> "transcribe_all_audio_files", task_id |-> id,
             files |-> n, index |-> 0, pos |-> "scheduled"]]
       /\ RegistryCall("transcribe_all_audio_files", "create_task",
            [NoFrame EXCEPT !.task_id = id, !.total_items = n,
                            !.profile_id = Some(7),
                            !.task_type = "batch_transcription"])
  /\ UNCHANGED running

\* jobs that give the event loop to the other handlers after each file
JobEnds_Yields(r) ==
  LET last == requests[r].index + 1 = requests[r].files
  IN  /\ requests' = [requests EXCEPT
                        ![r].index = @ + 1,
                        ![r].pos = IF last THEN "done" ELSE "scheduled"]
      /\ running' = 0

\* the job of request r that is running has ended: the next one starts
\* with no other handler in between, the last one frees the event loop
JobEnds(r) ==
  LET last == requests[r].index + 1 = requests[r].files
  IN  /\ requests' = [requests EXCEPT
                        ![r].index = @ + 1,
                        ![r].pos = IF last THEN "done" ELSE "scheduled"]
      /\ running' = IF last THEN 0 ELSE r

\* process_transcription, the next job of request r: its first
\* update_progress (line 66)
process_transcription_66(r) ==
  /\ running \in {0, r}
  /\ requests[r].pos = "scheduled"
  /\ requests' = [requests EXCEPT ![r].pos = "transcribing"]
  /\ RegistryCall("process_transcription", "update_progress",
       [NoFrame EXCEPT !.task_id = requests[r].task_id,
                       !.progress = FromInt(10),
                       !.message = Some("Starting transcription...")])
  /\ running' = r

\* transcribe_audio returns and update_progress(80) is called (lines
\* 69-71), or it raises and the handler of the exception calls fail_task
\* (lines 95-96)
process_transcription_69(r) ==
  /\ running = r
  /\ requests[r].pos = "transcribing"
  /\ \E raised \in BOOLEAN :
       IF raised
       THEN /\ RegistryCall("process_transcription", "fail_task",
                 [NoFrame EXCEPT !.task_id = requests[r].task_id,
                                 !.message = Some("no audio")])
            /\ JobEnds(r)
       ELSE /\ RegistryCall("process_transcription", "update_progress",
                 [NoFrame EXCEPT !.task_id = requests[r].task_id,
                                 !.progress = FromInt(80),
                                 !.message = Some("Saving transcription...")])
            /\ requests' = [requests EXCEPT ![r].pos = "saving"]
            /\ UNCHANGED running

\* a job with no `except`: when the database raises, the job ends there
process_transcription_93_Uncaught(r) ==
  /\ running = r
  /\ requests[r].pos = "saving"
  /\ \E raised \in BOOLEAN :
       IF raised
       THEN /\ event' = NoEvent
            /\ UNCHANGED <<tasks, upload_tasks, clock>>
            /\ UNCHANGED threads
       ELSE RegistryCall("process_transcription", "complete_task",
              [NoFrame EXCEPT
                 !.task_id = requests[r].task_id,
                 !.message = Some("Transcription completed successfully")])
  /\ JobEnds(r)

\* the transcription is saved and complete_task is called (lines 73-93),
\* or the database raises and fail_task is called (lines 95-96)
process_transcription_93(r) ==
  /\ running = r
  /\ requests[r].pos = "saving"
  /\ \E raised \in BOOLEAN :
       IF raised
       THEN RegistryCall("process_transcription", "fail_task",
              [NoFrame EXCEPT !.task_id = requests[r].task_id,
                              !.message = Some("database is locked")])
       ELSE RegistryCall("process_transcription", "complete_task",
              [NoFrame EXCEPT
                 !.task_id = requests[r].task_id,
                 !.message = Some("Transcription completed successfully")])
  /\ JobEnds(r)

\* a progress endpoint: get_progress on the registry of its module, and
\* HTTPException(404) when `not progress`
Poll(endpoint, task_id) ==
  /\ running = 0
  /\ event' = [NoEvent EXCEPT
                 !.op = "get_progress", !.thread = endpoint,
                 !.args = [NoFrame EXCEPT !.op = "get_progress",
                                          !.task_id = task_id],
                 !.result = IF TrackerOf(endpoint)[task_id] = None
                            THEN "HTTPException" ELSE "dict",
                 !.data = TrackerOf(endpoint)[task_id]]
  /\ UNCHANGED <<tasks, upload_tasks, requests, running, clock>>
  /\ UNCHANGED threads

get_upload_progress(task_id) == Poll("get_upload_progress", task_id)

get_transcription_progress(task_id) ==
  Poll("get_transcription_progress", task_id)

HandlerStep(r) ==
  \/ upload_multiple_files(r)
  \/ upload_multiple_files_50(r)
  \/ upload_multiple_files_117(r)
  \/ transcribe_audio_file(r)
  \/ transcribe_all_audio_files(r)
  \/ process_transcription_66(r)
  \/ process_transcription_69(r)
  \/ process_transcription_93(r)

HandlersNext ==
  \/ Tick
  \/ \E r \in Requests : HandlerStep(r)
  \/ \E i \in TaskIds : get_upload_progress(i)
  \/ \E i \in TaskIds : get_transcription_progress(i)

\* the application: requests to the handlers, served by one event loop
HandlersSpec == Init /\ [][HandlersNext]_vars

\* the code of request r that is still to run: the rest of the body of
\* upload_multiple_files, and the process_transcription jobs that
\* BackgroundTasks runs after the response
Continue(r) ==
  \/ upload_multiple_files_50(r)
  \/ upload_multiple_files_117(r)
  \/ process_transcription_66(r)
  \/ process_transcription_69(r)
  \/ process_transcription_93(r)

\* the producers alone, with no poll and at one time of the clock
ProducersNext == \E r \in Requests : HandlerStep(r)

\* the event loop runs what it has been given to run
FairProducersSpec ==
  /\ Init
  /\ [][ProducersNext]_vars
  /\ \A r \in Requests : WF_vars(Continue(r))

(***************************************************************************)
(* update_progress and its messages: one caller, one task, and every       *)
(* message of MessageInputs.                                               *)
(***************************************************************************)
\* the registry after create_task("t1", 4, 7, "file_upload")
MessageInit ==
  /\ tasks = [i \in TaskIds |->
               IF i = "t1"
               THEN Some(NewTask([NoFrame EXCEPT !.task_id = "t1",
                                                 !.total_items = 4,
                                                 !.profile_id = Some(7),
                                                 !.task_type = "file_upload"],
                                 0, 0))
               ELSE None]
  /\ lock = NoThread
  /\ pc = [t \in Threads |-> "idle"]
  /\ frame = [t \in Threads |-> NoFrame]
  /\ held = [t \in Threads |-> NoValue]
  /\ event = NoEvent
  /\ committed = [i \in TaskIds |-> {}]
  /\ clock = 0
  /\ calls = 0
  /\ upload_tasks = [i \in TaskIds |-> None]
  /\ requests = [r \in Requests |-> NoRequest]
  /\ running = 0

\* update_progress("t1", progress, message), from call to return
MessageUpdate ==
  \E m \in MessageInputs, p \in {FromInt(10)} :
    /\ tasks' = [tasks EXCEPT !["t1"] =
                   Some(update_progress_call(tasks["t1"][1], p, m, clock))]
    /\ event' = [NoEvent EXCEPT
                   !.op = "update_progress", !.thread = "w1",
                   !.args = [NoFrame EXCEPT !.op = "update_progress",
                                            !.task_id = "t1",
                                            !.progress = p,
                                            !.message = m,
                                            !.found = TRUE],
                   !.result = "None"]
    /\ UNCHANGED <<clock, upload_tasks, requests, running>>
    /\ UNCHANGED threads

MessageNext == Tick \/ MessageUpdate

MessageSpec == MessageInit /\ [][MessageNext]_vars

(***************************************************************************)
(* Properties.                                                             *)
(***************************************************************************)
\* the last step completed a call of op that found the dict of its task_id
Completed(op) == event.op = op /\ event.args.found

\* the dict that call worked on, as the call left it
EventTask == tasks[event.args.task_id][1]

\* thread t is inside increment_progress, at its call of update_progress
InIncrement(t) == frame[t].nested /\ pc[t] = "update_progress"

\* C1: increment_progress on a task with completed_items < total_items
\* returns, having added one to completed_items: the update_progress call it
\* makes can take the lock it begins with, so that the call goes on.
C1_IncrementReturns ==
  \A t \in Threads : InIncrement(t) => ENABLED Acquire(t)

\* C2: every call of a registry operation eventually returns with the lock
\* released, under fair scheduling: no call holds the lock forever.
C2_EveryCallReturns ==
  \A t \in Threads : (pc[t] # "idle" \/ lock = t) ~> (pc[t] = "idle" /\ lock # t)

\* C3: with update_progress and get_progress running concurrently on a task,
\* the record a reader reads from the value get_progress returned is the
\* record as some completed update_progress (or the create_task) left it.
C3_ReaderSeesCompletedPrefix ==
  (/\ event.op = "read_progress"
   /\ \A t \in Threads : frame[t].op \in {"", "update_progress"})
    => event.whole

\* C4: after update_progress(progress) on an existing task the stored
\* progress is progress brought into [0, 100], and the progress of every
\* record is in [0, 100] in every state.
C4_ProgressClamped ==
  /\ Completed("update_progress") =>
       EventTask.progress =
         IF FLt(event.args.progress, FZero) THEN FZero
         ELSE IF FLt(F100, event.args.progress) THEN F100
         ELSE event.args.progress
  /\ \A i \in TaskIds :
       tasks[i] # None =>
         /\ ~FLt(tasks[i][1].progress, FZero)
         /\ ~FLt(F100, tasks[i][1].progress)

\* an update_progress above the range has completed and stored 100.0
C4_Witness ==
  /\ Completed("update_progress")
  /\ FLt(F100, event.args.progress)
  /\ EventTask.progress = F100

\* floor(p / 100 * n) of a progress p >= 0
FloorOfShare(p, n) == FToInt(FMul(FDiv(p, F100), FromInt(n)))

\* C5: after update_progress on an existing task, completed_items is
\* floor(p / 100 * total_items) for the progress p the call stored.
C5_CompletedFromStoredProgress ==
  Completed("update_progress") =>
    EventTask.completed_items =
      FloorOfShare(EventTask.progress, EventTask.total_items)

\* C6: every record has 0 <= completed_items <= total_items in every state.
C6_CompletedWithinTotal ==
  \A i \in TaskIds :
    tasks[i] # None =>
      /\ 0 <= tasks[i][1].completed_items
      /\ tasks[i][1].completed_items <= tasks[i][1].total_items

\* the dict has the values of a task that has just been created
Fresh(d) ==
  /\ d.progress = FZero
  /\ d.completed_items = 0
  /\ d.status = "running"
  /\ d.current_step = "Initializing..."
  /\ d.estimated_time = None

\* C7: create_task returns the task_id it was given, and a get_progress of
\* that task_id right after it returns the record with progress 0.0,
\* completed_items 0, status running, current_step "Initializing..." and no
\* estimated_time.
C7_CreateThenGet ==
  [][/\ event.op = "create_task" =>
          event.result = "str" /\ event.id = event.args.task_id
     /\ (/\ event.op = "create_task"
         /\ event'.op = "get_progress"
         /\ event'.args.task_id = event.args.task_id)
          => /\ event'.result = "dict"
             /\ held'[event'.thread].kind = "dict"
             /\ held'[event'.thread].ref = RefTo(event.args.task_id)
             /\ Fresh(tasks'[event.args.task_id][1])]_vars

\* get_progress has returned a record as create_task makes it
C7_Witness ==
  /\ event.op = "get_progress"
  /\ event.result = "dict"
  /\ Fresh(Deref(held[event.thread].ref))
  /\ Deref(held[event.thread].ref).total_items > 0

\* C8: after complete_task(message) on an existing task the record has
\* status completed, progress 100.0, completed_items = total_items and the
\* message given.
C8_CompleteTask ==
  Completed("complete_task") =>
    /\ EventTask.status = "completed"
    /\ EventTask.progress = F100
    /\ EventTask.completed_items = EventTask.total_items
    /\ EventTask.message = event.args.message[1]

\* complete_task has completed on an existing task
C8_Witness ==
  /\ Completed("complete_task")
  /\ EventTask.status = "completed"
  /\ EventTask.completed_items = EventTask.total_items
  /\ EventTask.total_items > 0

\* C9: after fail_task(error_message) on an existing task the record has
\* status failed and the message "Failed: " followed by error_message.
C9_FailTask ==
  Completed("fail_task") =>
    /\ EventTask.status = "failed"
    /\ Len(EventTask.message) = 8 + Len(event.args.message[1])
    /\ SubSeq(EventTask.message, 1, 8) = "Failed: "
    /\ SubSeq(EventTask.message, 9, Len(EventTask.message))
         = event.args.message[1]

\* fail_task has completed on an existing task
C9_Witness ==
  /\ Completed("fail_task")
  /\ EventTask.status = "failed"
  /\ EventTask.message = "Failed: disk full"

\* the step is a cleanup_old_tasks(max_age_minutes = 0)
SweepAll == event'.op = "cleanup_old_tasks" /\ event'.args.max_age_minutes = 0

Terminal(d) == d.status \in {"completed", "failed"}

\* C10, as stated: cleanup_old_tasks(0) removes every record that is
\* completed or failed when it is called, one completed or failed at the
\* instant of the sweep included, and keeps every running record.
C10_SweepsEveryTerminal ==
  [][SweepAll =>
       \A i \in TaskIds :
         tasks[i] # None =>
           IF Terminal(tasks[i][1]) THEN tasks'[i] = None
           ELSE tasks'[i] = tasks[i]]_vars

\* C10, amended: cleanup_old_tasks(0) removes the completed and failed
\* records whose last_update is earlier than the sweep's reading of the
\* clock, and keeps the others as they are: the running records, and the
\* completed and failed ones whose last_update is that same reading.
C10_SweepsEarlierTerminal ==
  [][SweepAll =>
       \A i \in TaskIds :
         tasks[i] # None =>
           IF Terminal(tasks[i][1]) /\ tasks[i][1].last_update < clock
           THEN tasks'[i] = None
           ELSE tasks'[i] = tasks[i]]_vars

\* a cleanup_old_tasks(0) has kept a record that failed or completed at the
\* instant of the sweep
C10_Witness ==
  /\ event.op = "cleanup_old_tasks"
  /\ event.args.max_age_minutes = 0
  /\ \E i \in TaskIds :
       /\ tasks[i] # None
       /\ Terminal(tasks[i][1])
       /\ tasks[i][1].last_update = clock

\* the step is a cleanup_old_tasks call
Sweep == event'.op = "cleanup_old_tasks"

\* seconds between the last_update of d and the clock
AgeSeconds(d) == SecondsPerTick * (clock - d.last_update)

\* C11: cleanup_old_tasks(max_age_minutes) removes exactly the completed and
\* failed records whose last_update is more than max_age_minutes old; every
\* running record and every younger one stays, with all its fields unchanged.
C11_SweepsOldTerminal ==
  [][Sweep =>
       \A i \in TaskIds :
         IF /\ tasks[i] # None
            /\ Terminal(tasks[i][1])
            /\ AgeSeconds(tasks[i][1]) > 60 * event'.args.max_age_minutes
         THEN tasks'[i] = None
         ELSE tasks'[i] = tasks[i]]_vars

\* a cleanup_old_tasks(1) has kept a completed or failed record that is
\* 45 seconds old
C11_Witness ==
  /\ event.op = "cleanup_old_tasks"
  /\ event.args.max_age_minutes = 1
  /\ \E i \in TaskIds :
       /\ tasks[i] # None
       /\ Terminal(tasks[i][1])
       /\ tasks[i][1].last_update < clock

\* the step is a whole call of one of ops on a task_id that is not in the map
OnUnknown(ops) ==
  /\ event'.op \in ops
  /\ tasks[event'.args.task_id] = None

\* C12: on a task_id that is not in the registry, update_progress,
\* increment_progress, complete_task and fail_task raise nothing and leave
\* the whole registry as it is, and get_progress returns None.
C12_UnknownTaskIgnored ==
  [][/\ OnUnknown({"update_progress", "increment_progress",
                   "complete_task", "fail_task"})
          => event'.result = "None" /\ tasks' = tasks
     /\ OnUnknown({"get_progress"})
          => /\ event'.result = "None"
             /\ held'[event'.thread] = NoValue
             /\ tasks' = tasks]_vars

\* a complete_task on a task_id that is not in the map has returned, while
\* the map holds a record under another task_id
C12_Witness ==
  /\ event.op = "complete_task"
  /\ event.result = "None"
  /\ tasks[event.args.task_id] = None
  /\ \E i \in TaskIds : tasks[i] # None

\* the dict thread t holds after the step, when get_progress handed it one
\* before the step and the step is not a new call of t
StillHeld(t) ==
  /\ held[t].kind = "dict"
  /\ held'[t].kind = "dict"
  /\ event'.thread # t

\* C13: the record get_progress returned is a copy: no later update_progress,
\* complete_task, fail_task, create_task or cleanup_old_tasks call changes a
\* field of the value the caller holds.
C13_ReturnedRecordIsCopy ==
  [][\A t \in Threads :
       StillHeld(t) =>
         LET r == held'[t].ref
         IN  (IF r.to # "" THEN tasks'[r.to][1] ELSE r.copy[1])
               = Deref(held[t].ref)]_vars

\* the filter of a get_all_tasks(profile_id) call that was given a profile_id
Matching(profile_id) ==
  {i \in TaskIds : tasks[i] # None /\ tasks[i][1].profile_id = profile_id}

\* C14: get_all_tasks(profile_id) returns exactly the records whose
\* profile_id is the one given, for every integer given, 0 included, and
\* the whole map only when no profile_id is given.
C14_FilterByProfile ==
  event.op = "get_all_tasks" =>
    IF event.args.profile_id = None
    THEN held[event.thread].kind = "tasks"
    ELSE /\ held[event.thread].kind = "filtered"
         /\ \A i \in TaskIds :
              held[event.thread].map[i] =
                IF i \in Matching(event.args.profile_id[1]) THEN RefTo(i)
                ELSE NoRef

\* C15: every read and every write of the map and of its records is made by
\* a thread that holds the lock, the reads of the values get_progress and
\* get_all_tasks returned included, and at most one thread holds it.
C15_AccessUnderLock ==
  /\ event.op = "read_progress" => lock = event.thread
  /\ \A t \in Threads :
       pc[t] \notin Operations \cup {"idle"} => lock = t

\* C18: on a task created with total_items = 0 update_progress,
\* increment_progress and complete_task return normally, none raises, and
\* completed_items stays 0.
C18_ZeroTotalNeverRaises ==
  (/\ event.op \in {"update_progress", "increment_progress", "complete_task"}
   /\ tasks[event.args.task_id] # None
   /\ tasks[event.args.task_id][1].total_items = 0)
    => /\ event.result = "None"
       /\ tasks[event.args.task_id][1].completed_items = 0

\* the step is a statement of a fail_task of thread t
FailStep(t) ==
  /\ frame[t].op = "fail_task" \/ frame'[t].op = "fail_task"
  /\ pc'[t] # pc[t]

\* the fields fail_task does not assign
KeptByFail(d) ==
  [progress        |-> d.progress,
   completed_items |-> d.completed_items,
   current_step    |-> d.current_step,
   estimated_time  |-> d.estimated_time,
   total_items     |-> d.total_items,
   profile_id      |-> d.profile_id,
   task_type       |-> d.task_type,
   start_time      |-> d.start_time]

\* C19: every statement of fail_task on an existing task leaves progress,
\* completed_items, current_step, estimated_time, total_items, profile_id,
\* task_type and start_time of the record as they were, and leaves every
\* other record as it was.
C19_FailTaskFrame ==
  [][\A t \in Threads :
       FailStep(t) =>
         LET id == IF frame'[t].op = "fail_task" THEN frame'[t].task_id
                   ELSE frame[t].task_id
         IN  /\ tasks[id] # None =>
                  /\ tasks'[id] # None
                  /\ KeptByFail(tasks'[id][1]) = KeptByFail(tasks[id][1])
             /\ \A j \in TaskIds \ {id} : tasks'[j] = tasks[j]]_vars

\* fail_task has completed on a task that had made progress
C19_Witness ==
  /\ Completed("fail_task")
  /\ EventTask.status = "failed"
  /\ EventTask.progress # FZero
  /\ EventTask.completed_items > 0

\* C20: create_task with a task_id that is in the map returns the task_id
\* and puts a new record in the place of the one there, whatever that one's
\* status and progress: status running, progress 0.0, completed_items 0,
\* start_time the time of the call, and the total_items, profile_id and
\* task_type given; the records under other task ids stay as they were.
C20_CreateOverwrites ==
  [][(event'.op = "create_task" /\ tasks[event'.args.task_id] # None) =>
       LET id == event'.args.task_id
           d == tasks'[id][1]
       IN  /\ event'.result = "str"
           /\ event'.id = id
           /\ Fresh(d)
           /\ d.start_time = clock
           /\ d.total_items = event'.args.total_items
           /\ d.profile_id = event'.args.profile_id[1]
           /\ d.task_type = event'.args.task_type
           /\ \A j \in TaskIds \ {id} : tasks'[j] = tasks[j]]_vars

\* create_task has replaced a record that a caller of get_progress still
\* holds: the one it holds has another total_items than the one in the map
C20_Witness ==
  /\ event.op = "create_task"
  /\ \E t \in Threads :
       /\ held[t].kind = "dict"
       /\ held[t].ref.copy # None
       /\ held[t].ref.copy[1].task_id = event.args.task_id
       /\ held[t].ref.copy[1].total_items
            # tasks[event.args.task_id][1].total_items

\* the entry of the registry call the step makes, as it is before the call
Target == TrackerOf(event'.thread)[event'.args.task_id]

\* C16: on every task id of the upload and transcription handlers
\* create_task is called once, and no update_progress, complete_task or
\* fail_task call is made on it after its complete_task or fail_task call:
\* there is one terminal call, and it is the last call.
C16_OneTerminalCallLast ==
  [][/\ event'.op = "create_task" => Target = None
     /\ event'.op \in {"update_progress", "complete_task", "fail_task"}
          => Target # None /\ ~Terminal(Target[1])]_vars

\* the task ids the handlers have created
Created == {requests[r].task_id : r \in Requests} \ {""}

\* C17: a task created by the upload handler or by a transcription handler
\* is found by the get_progress of every progress endpoint, the upload one
\* and the transcription one.
C17_OneRegistry ==
  (/\ event.op = "get_progress"
   /\ event.thread \in {"get_upload_progress", "get_transcription_progress"}
   /\ event.args.task_id \in Created)
    => event.result = "dict"

\* the keywords in the order of the claim, with the step of each
StepKeywords ==
  <<<<"upload", "Uploading">>, <<"process", "Processing">>,
    <<"transcri", "Transcribing">>, <<"analyz", "Analyzing">>,
    <<"generat", "Generating">>>>

\* a and b are the same letter, in upper or lower case, or the same character
SameLetter(a, b) ==
  \/ a = b
  \/ \E i \in 1..26 :
       {a, b} = {SubSeq("abcdefghijklmnopqrstuvwxyz", i, i),
                 SubSeq("ABCDEFGHIJKLMNOPQRSTUVWXYZ", i, i)}

\* keyword occurs in message, whatever the case of the letters
Occurs(message, keyword) ==
  \E i \in 1..(Len(message) - Len(keyword) + 1) :
    \A j \in 1..Len(keyword) :
      SameLetter(SubSeq(message, i + j - 1, i + j - 1), SubSeq(keyword, j, j))

\* the step of the first keyword of StepKeywords that occurs in message
ExpectedStep(message) ==
  LET hits == {i \in 1..Len(StepKeywords) : Occurs(message, StepKeywords[i][1])}
  IN  IF hits = {} THEN "Processing"
      ELSE StepKeywords[CHOOSE i \in hits : \A j \in hits : i <= j][2]

\* C21: update_progress with a message (a string that is not empty) stores
\* it and sets current_step to the step of the first keyword that occurs in
\* it, letters compared without case, in the order upload, process,
\* transcri, analyz, generat, and to Processing when none occurs; with no
\* message (None, or the empty string) message and current_step stay.
C21_MessageSetsStep ==
  [][event'.op = "update_progress" =>
       LET m == event'.args.message
           before == tasks["t1"][1]
           after == tasks'["t1"][1]
       IN  IF m # None /\ m[1] # ""
           THEN /\ after.message = m[1]
                /\ after.current_step = ExpectedStep(m[1])
           ELSE /\ after.message = before.message
                /\ after.current_step = before.current_step]_vars

\* a message with both "process" and "upload" in it has given Uploading
C21_Witness ==
  /\ event.op = "update_progress"
  /\ tasks["t1"][1].message = "PROCESS Uploading "
  /\ tasks["t1"][1].current_step = "Uploading"

\* the fields that say which task a record is of
Identity(d) ==
  [task_id     |-> d.task_id,
   profile_id  |-> d.profile_id,
   task_type   |-> d.task_type,
   total_items |-> d.total_items,
   start_time  |-> d.start_time]

\* the step is a create_task(i, ...)
Recreates(i) == event'.op = "create_task" /\ event'.args.task_id = i

\* C22: no step of update_progress, increment_progress, complete_task,
\* fail_task, get_progress, get_all_tasks or cleanup_old_tasks changes
\* task_id, profile_id, task_type, total_items or start_time of a record
\* that stays in the registry, and the task_id of every record is the key
\* it is stored under.
C22_IdentityKept ==
  [][\A i \in TaskIds :
       /\ tasks'[i] # None => tasks'[i][1].task_id = i
       /\ (tasks[i] # None /\ tasks'[i] # None /\ ~Recreates(i))
            => Identity(tasks'[i][1]) = Identity(tasks[i][1])]_vars

\* a record has been through update_progress and complete_task, at a
\* later time than its start_time, with the identity create_task gave it
C22_Witness ==
  /\ Completed("complete_task")
  /\ EventTask.estimated_time # None
  /\ EventTask.start_time < EventTask.last_update
  /\ Identity(EventTask) =
       [task_id |-> event.args.task_id, profile_id |-> 7,
        task_type |-> "file_upload", total_items |-> 4,
        start_time |-> 0]

\* the step is the return of a call of op that found its task and left it
\* in the registry
Returned(ops) ==
  /\ event'.op \in ops
  /\ tasks[event'.args.task_id] # None
  /\ tasks'[event'.args.task_id] # None

\* C23: a call of update_progress, increment_progress, complete_task or
\* fail_task on an existing task sets last_update to the time of the call:
\* when increment_progress, complete_task or fail_task returns, last_update
\* is the time then, and the statement of update_progress that sets it sets
\* it to the time then; last_update never decreases and is never before
\* start_time; get_progress, get_all_tasks and cleanup_old_tasks leave the
\* records that stay as they are.
C23_LastUpdateIsCallTime ==
  [][/\ Returned({"increment_progress", "complete_task", "fail_task"})
          => tasks'[event'.args.task_id][1].last_update = clock'
     /\ \A t \in Threads :
          (pc[t] = "update_progress_50" /\ pc'[t] # pc[t])
            => tasks'[frame[t].task_id][1].last_update = clock
     /\ \A i \in TaskIds :
          /\ tasks'[i] # None
               => tasks'[i][1].start_time <= tasks'[i][1].last_update
          /\ (tasks[i] # None /\ tasks'[i] # None)
               => tasks[i][1].last_update <= tasks'[i][1].last_update
          /\ (/\ event'.op \in {"get_progress", "get_all_tasks",
                                 "cleanup_old_tasks"}
              /\ tasks'[i] # None)
               => tasks'[i] = tasks[i]]_vars

\* the step is a statement of a call of op, or the whole of one
StepOf(op) ==
  \/ event'.op = op
  \/ \E t \in Threads :
       /\ pc'[t] # pc[t]
       /\ frame[t].op = op \/ frame'[t].op = op

\* the operation that sets each status
SetterOf(status) ==
  CASE status = "running" -> "create_task"
    [] status = "completed" -> "complete_task"
    [] status = "failed" -> "fail_task"

\* C24: the status of every record is running, completed or failed; a
\* record gets the status running only by a create_task, completed only by
\* a statement of complete_task and failed only by a statement of
\* fail_task; no statement of update_progress or increment_progress changes
\* a status.
C24_StatusSetters ==
  [][\A i \in TaskIds :
       tasks'[i] # None =>
         /\ tasks'[i][1].status \in {"running", "completed", "failed"}
         /\ (tasks[i] = None \/ tasks'[i][1].status # tasks[i][1].status
               \/ Recreates(i))
              => StepOf(SetterOf(tasks'[i][1].status))
         /\ (StepOf("update_progress") \/ StepOf("increment_progress"))
              => /\ tasks[i] # None
                 /\ tasks'[i][1].status = tasks[i][1].status]_vars

\* an update_progress has returned on a record that is completed
C24_Witness ==
  /\ Completed("update_progress")
  /\ EventTask.status = "completed"
  /\ EventTask.message = "Uploaded a.wav (1/4)"

\* C25: a record leaves the registry only in a cleanup_old_tasks step, no
\* step of another operation takes a task id out of it, and a sweep leaves
\* every record whose status is running as it is.
C25_OnlySweepRemoves ==
  [][\A i \in TaskIds :
       tasks[i] # None =>
         /\ tasks'[i] = None => event'.op = "cleanup_old_tasks"
         /\ (event'.op = "cleanup_old_tasks" /\ tasks[i][1].status = "running")
              => tasks'[i] = tasks[i]]_vars

\* a sweep of max_age_minutes = 0 has left a running record of 90 seconds ago
C25_Witness ==
  /\ event.op = "cleanup_old_tasks"
  /\ event.args.max_age_minutes = 0
  /\ \E i \in TaskIds :
       /\ tasks[i] # None
       /\ tasks[i][1].status = "running"
       /\ tasks[i][1].last_update + 2 <= clock

\* the entry of the registry call the step makes, as it is after the call
TargetAfter ==
  (IF event'.thread \in UploadHandlers THEN upload_tasks' ELSE tasks')
    [event'.args.task_id]

\* C26: on a task of the upload handler, of a single transcription or of a
\* batch transcription, no update_progress, complete_task or fail_task call
\* of the handlers leaves a progress below the one it found.
C26_ProgressNeverDecreases ==
  [][(/\ event'.op \in {"update_progress", "complete_task", "fail_task"}
      /\ Target # None)
       => ~FLt(TargetAfter[1].progress, Target[1].progress)]_vars

\* C27: a record whose status is completed stays completed, and one whose
\* status is failed stays failed, through every step of update_progress,
\* increment_progress, complete_task and fail_task, as long as it is
\* neither swept nor re-created by create_task.
C27_TerminalAbsorbing ==
  [][\A i \in TaskIds :
       (/\ tasks[i] # None
        /\ Terminal(tasks[i][1])
        /\ tasks'[i] # None
        /\ ~Recreates(i))
         => tasks'[i][1].status = tasks[i][1].status]_vars

\* C27, amended: a record whose status is completed or failed keeps that
\* status through every step of update_progress and increment_progress and
\* never goes back to running unless create_task re-creates it; a later
\* complete_task makes it completed and a later fail_task makes it failed.
C27_TerminalStaysTerminal ==
  [][\A i \in TaskIds :
       (/\ tasks[i] # None
        /\ Terminal(tasks[i][1])
        /\ tasks'[i] # None
        /\ ~Recreates(i))
         => /\ Terminal(tasks'[i][1])
            /\ tasks'[i][1].status # tasks[i][1].status
                 => \/ /\ tasks'[i][1].status = "completed"
                       /\ StepOf("complete_task")
                    \/ /\ tasks'[i][1].status = "failed"
                       /\ StepOf("fail_task")]_vars

\* fail_task has returned on a record that complete_task had completed
C27_Witness ==
  /\ Completed("fail_task")
  /\ EventTask.status = "failed"
  /\ EventTask.progress = F100
  /\ EventTask.total_items = 4
  /\ EventTask.completed_items = 4

\* C28: in every state a record whose status is completed has progress
\* 100.0 and completed_items = total_items.
C28_CompletedIsFull ==
  \A i \in TaskIds :
    (tasks[i] # None /\ tasks[i][1].status = "completed")
      => /\ tasks[i][1].progress = F100
         /\ tasks[i][1].completed_items = tasks[i][1].total_items

\* progress is 100.0 and every item is counted
Full(d) == d.progress = F100 /\ d.completed_items = d.total_items

\* C28, amended: complete_task leaves a completed record with progress
\* 100.0 and completed_items = total_items, and every step keeps a
\* completed record so except the steps of update_progress, which change
\* progress and completed_items and leave the status completed.
C28_CompletedIsFullUntilUpdate ==
  [][\A i \in TaskIds :
       (/\ tasks'[i] # None
        /\ tasks'[i][1].status = "completed"
        /\ ~StepOf("update_progress")
        /\ \/ tasks[i] = None
           \/ tasks[i][1].status # "completed"
           \/ Full(tasks[i][1]))
         => Full(tasks'[i][1])]_vars

\* complete_task has returned on a record that an update_progress had
\* moved, and the record is full
C28_Witness ==
  /\ Completed("complete_task")
  /\ EventTask.status = "completed"
  /\ Full(EventTask)
  /\ EventTask.total_items = 4
  /\ EventTask.estimated_time # None

\* the request that created the task of the last poll is a batch of two
\* files or more with a file whose process_transcription has not ended
PolledBatchPending ==
  \E r \in Requests :
    /\ requests[r].kind = "transcribe_all_audio_files"
    /\ requests[r].task_id = event.args.task_id
    /\ requests[r].files >= 2
    /\ requests[r].index < requests[r].files

\* get_transcription_progress has answered with the record of a task
PolledTranscription ==
  /\ event.op = "get_progress"
  /\ event.thread = "get_transcription_progress"
  /\ event.data # None

\* C29: the record that get_transcription_progress returns for the task of
\* a batch of two files or more never has status completed nor progress
\* 100.0 while a file of the batch has not been through its
\* process_transcription job.
C29_BatchNotCompletedEarly ==
  (PolledTranscription /\ PolledBatchPending)
    => /\ event.data[1].status # "completed"
       /\ event.data[1].progress # F100

\* a poll of a batch of two files whose jobs have not started answers
\* with a running record
C29_Witness ==
  /\ PolledTranscription
  /\ PolledBatchPending
  /\ event.result = "dict"
  /\ event.data[1].status = "running"
  /\ event.data[1].total_items = 2
  /\ event.data[1].task_type = "batch_transcription"

\* the record of the task that request r created
TaskOf(r) == TrackerOf(requests[r].kind)[requests[r].task_id]

\* request r has run all its code and its task has the status its
\* producer ends with
Finished(r) ==
  /\ requests[r] # NoRequest
  /\ TaskOf(r) # None
  /\ IF requests[r].kind = "upload_multiple_files"
     THEN /\ requests[r].pos = "returned"
          /\ TaskOf(r)[1].status = "completed"
     ELSE /\ requests[r].pos = "done"
          /\ TaskOf(r)[1].status \in {"completed", "failed"}

\* C30: every task that a producer creates reaches a terminal status: the
\* task of upload_multiple_files is completed when the request returns
\* its task_id, whether files were stored or rejected; the task of
\* transcribe_audio_file or transcribe_all_audio_files is completed or
\* failed when its process_transcription jobs have run, whether the
\* transcription or the database write raises or not; and every request
\* gets there.
C30_ProducersEndTerminal ==
  /\ [](\A r \in Requests :
          requests[r] # NoRequest /\ requests[r].pos \in {"returned", "done"}
            => Finished(r))
  /\ \A r \in Requests : (requests[r] # NoRequest) ~> Finished(r)

\* a batch of two files has run its two jobs, the last of which raised,
\* and its task is failed
C30_Witness ==
  \E r \in Requests :
    /\ requests[r].kind = "transcribe_all_audio_files"
    /\ requests[r].files = 2
    /\ Finished(r)
    /\ TaskOf(r)[1].status = "failed"
    /\ event.op = "fail_task"

====
